---- MODULE Spec2Model ----
(***************************************************************************)
(* Fixture lifecycle of the OSF smoke tests (base.py): SmokeTest,          *)
(* UserSmokeTest and ProjectSmokeTest, their setUp / tearDown chains as    *)
(* the unittest / nose runner drives them, ProjectSmokeTest.goto and       *)
(* SmokeTest.get_element.                                                  *)
(*                                                                         *)
(* Strings are sequences of one-character strings, so that slicing         *)
(* (project_url[:-1]) and '/'.join act on characters as they do in Python. *)
(***************************************************************************)
EXTENDS Integers, Sequences, FiniteSets, TLC

VARIABLES
    cls,            \* class of the test being executed
    phase,          \* "setUp", "test", "tearDown" or "done"
    step,           \* index of the next call in the running setUp / tearDown chain
    outcome,        \* what the runner recorded for the execution
    driver,         \* self.driver: "none", "live" (session open), "quit" (session
                    \* ended) or "window_closed" (window closed, session open)
    current_url,    \* the address the session's browser is at
    user_data,      \* self.user_data: "none" or "user"
    logged_in,      \* a user is logged in through the session
    login_seen,     \* post-login indicator after util.login: "none", "seen" or "missing"
    project_url,    \* self.project_url, <<>> while unset
    project_exists, \* the project created by this execution exists on the site
    site_root,      \* self.site_root, or NoAttr when no such attribute is set
    acquires,       \* util.launch_driver calls that returned a session
    releases,       \* driver.quit calls
    calls,          \* fixture calls of this execution, in order, with their result
    body_ops,       \* operations the test body has performed
    last_goto,      \* record of the last ProjectSmokeTest.goto call
    waiting,        \* state of the get_element call in progress or just returned
    last_user_url,  \* record of the last UserSmokeTest.get_user_url call
    saved_url,      \* _url of GithubaddonFixture.setUpClass
    parent_url,     \* where the session was when the parent setUpClass returned
    addon,          \* addon settings of the project made by the fixture
    page_log,       \* the latest log fragment of the page the session shows
    log_entry,      \* what the last get_log call gave
    worker,         \* concurrent test executions: each worker's own state
    session         \* sessions the workers opened: owner, users, releasers

\* GithubaddonFixture.setUpClass
addonVars == <<saved_url, parent_url, addon>>

\* ProjectSmokeTest.get_log
logVars == <<page_log, log_entry>>

\* tests running in separate worker processes
concVars == <<worker, session>>

vars == <<cls, phase, step, outcome, driver, current_url, user_data, logged_in,
          login_seen, project_url, project_exists, site_root, acquires, releases,
          calls, body_ops, last_goto, waiting, last_user_url, addonVars, logVars,
          concVars>>

-----------------------------------------------------------------------------
(* Bounds of the model *)

\* longest project address create_project returns
MaxUrlLen == 2
\* operations one test body performs
MaxOps == 2
\* longest time, in poll intervals, one evaluation of the wait condition takes
MaxLatency == 1

(* Program constants *)

\* get_element: wait(driver, timeout=10)
timeout == 10
\* get_element passes no poll_frequency: the wait sleeps 0.5 s between polls,
\* two poll intervals per second
PollsPerSecond == 2

-----------------------------------------------------------------------------
(* Strings *)

Slash == "/"

UrlChars == {"p", Slash}

\* addresses util.create_project may return: non-empty, with or without a
\* trailing slash
ProjectUrls == UNION {[1..n -> UrlChars] : n \in 1..MaxUrlLen}

FileNames == {<<"r">>, <<"r", "c">>}

\* what self.site_root holds when no such attribute is set: no address
NoAttr == <<"NoAttr">>

SiteRoots == {NoAttr, <<"s">>}

files_segment == <<"f", "i", "l", "e", "s">>

dashboard_segment == <<"d", "a", "s", "h", "b", "o", "a", "r", "d">>

\* s[:-1]: all but the last character; '' for the empty string
AllButLast(s) == IF Len(s) = 0 THEN <<>> ELSE SubSeq(s, 1, Len(s) - 1)

\* '/'.join(segs)
RECURSIVE join(_)
join(segs) ==
    IF Len(segs) = 0 THEN <<>>
    ELSE IF Len(segs) = 1 THEN segs[1]
    ELSE segs[1] \o <<Slash>> \o join(Tail(segs))

-----------------------------------------------------------------------------
(* The classes and their setUp / tearDown chains *)

\* the classes of base.py
SmokeTests == {"SmokeTest", "UserSmokeTest", "ProjectSmokeTest"}

Classes == SmokeTests \cup {"GithubaddonFixture"}

\* a setUpClass that does not send the session back to _url
GithubSetUp_noRestore ==
    <<"ProjectFixture_setUpClass", "save_url", "addon_selection", "get_token",
      "set_repo">>

\* GithubaddonFixture.setUpClass: the parent's setUpClass, then _url is
\* saved, the three addon steps run and the session is sent back to _url
GithubSetUp ==
    <<"ProjectFixture_setUpClass", "save_url", "addon_selection", "get_token",
      "set_repo", "restore_url">>

\* GithubaddonFixture defines no tearDownClass: the parent's is inherited
GithubTearDown == <<"ProjectFixture_tearDownClass">>

\* a ProjectSmokeTest.setUp that creates the project before it calls its
\* parent's setUp
SetUpChain_projectFirst(c) ==
    CASE c = "SmokeTest" -> <<"launch_driver">>
      [] c = "UserSmokeTest" -> <<"launch_driver", "create_user", "login">>
      [] c = "ProjectSmokeTest" ->
            <<"create_project", "goto_project", "launch_driver", "create_user", "login">>
      [] c = "GithubaddonFixture" -> GithubSetUp

\* the calls setUp makes, in order, each class calling its parent's setUp first
RECURSIVE SetUpChain(_)
SetUpChain(c) ==
    CASE c = "SmokeTest" -> <<"launch_driver">>
      [] c = "UserSmokeTest" -> SetUpChain("SmokeTest") \o <<"create_user", "login">>
      [] c = "ProjectSmokeTest" ->
            SetUpChain("UserSmokeTest") \o <<"create_project", "goto_project">>
      [] c = "GithubaddonFixture" -> GithubSetUp

\* a ProjectSmokeTest.tearDown that only calls its parent's tearDown
TearDownChain_noDelete(c) ==
    CASE c = "SmokeTest" -> <<"quit">>
      [] c = "UserSmokeTest" -> <<"logout", "quit">>
      [] c = "ProjectSmokeTest" -> <<"logout", "quit">>
      [] c = "GithubaddonFixture" -> GithubTearDown

\* a ProjectSmokeTest.tearDown that calls its parent's tearDown steps before
\* it deletes the project
TearDownChain_logoutFirst(c) ==
    CASE c = "SmokeTest" -> <<"quit">>
      [] c = "UserSmokeTest" -> <<"logout", "quit">>
      [] c = "ProjectSmokeTest" -> <<"logout", "delete_project", "quit">>
      [] c = "GithubaddonFixture" -> GithubTearDown

\* the calls tearDown makes, in order, each class calling its parent's tearDown last
RECURSIVE TearDownChain(_)
TearDownChain(c) ==
    CASE c = "SmokeTest" -> <<"quit">>
      [] c = "UserSmokeTest" -> <<"logout">> \o TearDownChain("SmokeTest")
      [] c = "ProjectSmokeTest" -> <<"delete_project">> \o TearDownChain("UserSmokeTest")
      [] c = "GithubaddonFixture" -> GithubTearDown

\* an external call returns or raises
Results == {"ok", "raise"}

NoGoto == [page |-> "none", args |-> <<>>, err |-> "none", navigated |-> FALSE,
           ret |-> "none", url_before |-> <<>>, url_after |-> <<>>]

Idle == [state |-> "idle", elapsed |-> 0, element |-> "absent"]

NoUserUrl == [called |-> FALSE, returned |-> FALSE, url_before |-> <<>>,
              url_after |-> <<>>]

NoLog == [text |-> "none", links |-> <<>>, time |-> <<>>]

NoEntry == [state |-> "none"]

NoWorkers == <<>>

NoSessions == <<>>

-----------------------------------------------------------------------------
(* The runner: unittest.TestCase.run on a fresh instance of the test class *)

Init ==
    /\ cls \in Classes
    /\ site_root \in SiteRoots
    /\ phase = "setUp"
    /\ step = 1
    /\ outcome = "none"
    /\ driver = "none"
    /\ current_url = <<>>
    /\ user_data = "none"
    /\ logged_in = FALSE
    /\ login_seen = "none"
    /\ project_url = <<>>
    /\ project_exists = FALSE
    /\ calls = <<>>
    /\ body_ops = 0
    /\ last_goto = NoGoto
    /\ waiting = Idle
    /\ acquires = 0
    /\ releases = 0
    /\ last_user_url = NoUserUrl
    /\ saved_url = <<>>
    /\ parent_url = <<>>
    /\ addon = "none"
    /\ page_log = NoLog
    /\ log_entry = NoEntry
    /\ worker = NoWorkers
    /\ session = NoSessions

\* setUp is at the call `name`
AtSetUp(name) ==
    /\ phase = "setUp"
    /\ step <= Len(SetUpChain(cls))
    /\ SetUpChain(cls)[step] = name

\* tearDown is at the call `name`
AtTearDown(name) ==
    /\ phase = "tearDown"
    /\ step <= Len(TearDownChain(cls))
    /\ TearDownChain(cls)[step] = name

Called(name, r) == calls' = Append(calls, [name |-> name, ok |-> (r = "ok")])

\* a setUp that catches what its calls raise and goes on
AfterSetUpCall_swallow(r) ==
    IF step = Len(SetUpChain(cls))
    THEN phase' = "test" /\ step' = 1 /\ outcome' = outcome
    ELSE phase' = "setUp" /\ step' = step + 1 /\ outcome' = outcome

\* A call of setUp has returned or raised. setUp catches nothing: an exception
\* leaves it, and the runner (unittest.TestCase.run) then records an error
\* and runs neither the test method nor tearDown. After the last call setUp
\* returns and the test method runs.
AfterSetUpCall(r) ==
    IF r = "raise"
    THEN phase' = "done" /\ step' = step /\ outcome' = "setUpError"
    ELSE IF step = Len(SetUpChain(cls))
    THEN phase' = "test" /\ step' = 1 /\ outcome' = outcome
    ELSE phase' = "setUp" /\ step' = step + 1 /\ outcome' = outcome

\* A call of tearDown has returned or raised. tearDown catches nothing: an
\* exception leaves it, the calls after it (the parent's tearDown among them)
\* are not made, and the runner records an error.
AfterTearDownCall(r) ==
    IF r = "raise"
    THEN phase' = "done" /\ step' = step /\ outcome' = "tearDownError"
    ELSE IF step = Len(TearDownChain(cls))
    THEN phase' = "done" /\ step' = step /\ outcome' = outcome
    ELSE phase' = "tearDown" /\ step' = step + 1 /\ outcome' = outcome

-----------------------------------------------------------------------------
(* setUp *)

\* util.launch_driver returns a new session, or raises and opens none
util_launch_driver(r) ==
    IF r = "ok"
    THEN driver' = "live" /\ acquires' = acquires + 1
    ELSE UNCHANGED <<driver, acquires>>

\* SmokeTest.setUp: self.driver = util.launch_driver(...)
launch_driver ==
    /\ AtSetUp("launch_driver")
    /\ \E r \in Results :
        /\ util_launch_driver(r)
        /\ Called("launch_driver", r)
        /\ AfterSetUpCall(r)
    /\ UNCHANGED <<cls, current_url, user_data, logged_in, login_seen, project_url,
                   project_exists, site_root, releases, body_ops,
                   last_goto, waiting>>
    /\ UNCHANGED <<last_user_url, addonVars, logVars, concVars>>

\* util.create_user returns the credential of a new account, or raises
util_create_user(r) == IF r = "ok" THEN "user" ELSE user_data

\* UserSmokeTest.setUp: self.user_data = util.create_user(self.driver)
create_user ==
    /\ AtSetUp("create_user")
    /\ \E r \in Results :
        /\ user_data' = util_create_user(r)
        /\ Called("create_user", r)
        /\ AfterSetUpCall(r)
    /\ UNCHANGED <<cls, driver, current_url, logged_in, login_seen, project_url,
                   project_exists, site_root, acquires, releases, body_ops, last_goto, waiting>>
    /\ UNCHANGED <<last_user_url, addonVars, logVars, concVars>>

\* util.login submits the credential and confirms the post-login page: it
\* returns when the indicator is observed and raises when it is not
util_login(seen) == IF seen THEN "ok" ELSE "raise"

\* UserSmokeTest.setUp: util.login(self.driver, username, password)
login ==
    /\ AtSetUp("login")
    /\ \E seen \in BOOLEAN :
        /\ login_seen' = IF seen THEN "seen" ELSE "missing"
        /\ logged_in' = seen
        /\ Called("login", util_login(seen))
        /\ AfterSetUpCall(util_login(seen))
    /\ UNCHANGED <<cls, driver, current_url, user_data, project_url, project_exists,
                   site_root, acquires, releases, body_ops, last_goto,
                   waiting>>
    /\ UNCHANGED <<last_user_url, addonVars, logVars, concVars>>

\* util.create_project creates a project through the session and returns its
\* address, the page the session is then at; or raises and creates none
util_create_project(r, url) ==
    IF r = "ok"
    THEN project_exists' = TRUE /\ current_url' = url
    ELSE UNCHANGED <<project_exists, current_url>>

\* ProjectSmokeTest.setUp: self.project_url = util.create_project(self.driver)
create_project ==
    /\ AtSetUp("create_project")
    /\ \E r \in Results, url \in ProjectUrls :
        /\ util_create_project(r, url)
        /\ project_url' = IF r = "ok" THEN url ELSE project_url
        /\ Called("create_project", r)
        /\ AfterSetUpCall(r)
    /\ UNCHANGED <<cls, driver, user_data, logged_in, login_seen, site_root, acquires,
                   releases, body_ops, last_goto, waiting>>
    /\ UNCHANGED <<last_user_url, addonVars, logVars, concVars>>

\* util.goto_project takes the session to the project's main page, or raises
util_goto_project(r) == IF r = "ok" THEN project_url ELSE current_url

\* ProjectSmokeTest.setUp: util.goto_project(self.driver)
goto_project ==
    /\ AtSetUp("goto_project")
    /\ \E r \in Results :
        /\ current_url' = util_goto_project(r)
        /\ Called("goto_project", r)
        /\ AfterSetUpCall(r)
    /\ UNCHANGED <<cls, driver, user_data, logged_in, login_seen, project_url,
                   project_exists, site_root, acquires, releases, body_ops, last_goto, waiting>>
    /\ UNCHANGED <<last_user_url, addonVars, logVars, concVars>>

-----------------------------------------------------------------------------
(* tearDown *)

\* util.delete_project deletes the project, or raises and leaves it
util_delete_project(r) == IF r = "ok" THEN FALSE ELSE project_exists

\* ProjectSmokeTest.tearDown: util.delete_project(self.driver)
delete_project ==
    /\ AtTearDown("delete_project")
    /\ \E r \in Results :
        /\ project_exists' = util_delete_project(r)
        /\ Called("delete_project", r)
        /\ AfterTearDownCall(r)
    /\ UNCHANGED <<cls, driver, current_url, user_data, logged_in, login_seen,
                   project_url, site_root, acquires, releases, body_ops,
                   last_goto, waiting>>
    /\ UNCHANGED <<last_user_url, addonVars, logVars, concVars>>

\* util.logout logs the user out, or raises and leaves the user logged in
util_logout(r) == IF r = "ok" THEN FALSE ELSE logged_in

\* UserSmokeTest.tearDown: util.logout(self.driver)
logout ==
    /\ AtTearDown("logout")
    /\ \E r \in Results :
        /\ logged_in' = util_logout(r)
        /\ Called("logout", r)
        /\ AfterTearDownCall(r)
    /\ UNCHANGED <<cls, driver, current_url, user_data, login_seen, project_url,
                   project_exists, site_root, acquires, releases, body_ops, last_goto, waiting>>
    /\ UNCHANGED <<last_user_url, addonVars, logVars, concVars>>

\* a tearDown that releases with WebDriver.close(), which closes the current
\* window and leaves the browser session open
release_with_close == "close"

\* the WebDriver method SmokeTest.tearDown releases the session with:
\* quit(), which ends the whole browser session
release_method == "quit"

\* SmokeTest.tearDown: self.driver.quit()
quit ==
    /\ AtTearDown("quit")
    /\ driver' = IF release_method = "quit" THEN "quit" ELSE "window_closed"
    /\ releases' = releases + 1
    /\ Called("quit", "ok")
    /\ AfterTearDownCall("ok")
    /\ UNCHANGED <<cls, current_url, user_data, logged_in, login_seen, project_url,
                   project_exists, site_root, acquires, body_ops,
                   last_goto, waiting>>
    /\ UNCHANGED <<last_user_url, addonVars, logVars, concVars>>

-----------------------------------------------------------------------------
(* The test method *)

\* the test method returns or raises (a failed assertion, say); the runner
\* then calls tearDown
TestReturns ==
    /\ phase = "test"
    /\ waiting.state # "polling"
    /\ \E r \in Results :
        /\ outcome' = IF r = "ok" THEN "passed" ELSE "failed"
        /\ Called("test", r)
    /\ phase' = "tearDown"
    /\ step' = 1
    /\ waiting' = Idle
    /\ UNCHANGED <<cls, driver, current_url, user_data, logged_in, login_seen,
                   project_url, project_exists, site_root, acquires, releases,
                   body_ops, last_goto>>
    /\ UNCHANGED <<last_user_url, addonVars, logVars, concVars>>

-----------------------------------------------------------------------------
(* ProjectSmokeTest.goto *)

PathKeys == {"dashboard", "files", "file", "user-dashboard"}

\* page names a test may pass to goto
Pages == PathKeys \cup {"settings", "registrations", "unknown-key"}

\* *args of goto: nothing, or one file name
ArgLists == {<<>>} \cup {<<n>> : n \in FileNames}

Built(url) == [err |-> "none", url |-> url]

Raised(err) == [err |-> err, url |-> <<>>]

\* a path table that falls back to the dashboard for a key it does not hold
build_path_default(page, args) ==
    CASE page = "files" -> Built(join(<<AllButLast(project_url), files_segment>>))
      [] page = "file" ->
            IF Len(args) = 0 THEN Raised("IndexError")
            ELSE Built(join(<<AllButLast(project_url), files_segment, args[1]>>))
      [] page = "user-dashboard" ->
            IF site_root = NoAttr THEN Raised("AttributeError")
            ELSE Built(join(<<site_root, dashboard_segment>>))
      [] OTHER -> Built(project_url)

\* a 'file' entry that goes to the file list when no file name is given
build_path_fileOptional(page, args) ==
    CASE page = "dashboard" -> Built(project_url)
      [] page = "files" -> Built(join(<<AllButLast(project_url), files_segment>>))
      [] page = "file" ->
            Built(join(<<AllButLast(project_url), files_segment>> \o args))
      [] page = "user-dashboard" ->
            IF site_root = NoAttr THEN Raised("AttributeError")
            ELSE Built(join(<<site_root, dashboard_segment>>))
      [] OTHER -> Raised("KeyError")

\* build_path[page](): the address, or the exception the lookup or the lambda raises
build_path(page, args) ==
    CASE page = "dashboard" -> Built(project_url)
      [] page = "files" -> Built(join(<<AllButLast(project_url), files_segment>>))
      [] page = "file" ->
            IF Len(args) = 0 THEN Raised("IndexError")
            ELSE Built(join(<<AllButLast(project_url), files_segment, args[1]>>))
      [] page = "user-dashboard" ->
            IF site_root = NoAttr THEN Raised("AttributeError")
            ELSE Built(join(<<site_root, dashboard_segment>>))
      [] OTHER -> Raised("KeyError")

\* the test method is running and is not inside a call
InTestBody ==
    /\ phase = "test"
    /\ waiting.state # "polling"
    /\ body_ops < MaxOps

\* an exception raised by a call of the test method leaves the test method
BodyCall(err) ==
    IF err = "none"
    THEN UNCHANGED <<phase, step, outcome, calls>>
    ELSE /\ phase' = "tearDown"
         /\ step' = 1
         /\ outcome' = "failed"
         /\ Called("test", "raise")

\* what goto returns when it does not raise: it has no return statement
goto_return == "None"

\* self.driver.get(url=build_path[page]()): the argument is evaluated first,
\* so driver.get is not reached when building the address raises
goto ==
    /\ InTestBody
    /\ cls = "ProjectSmokeTest"
    /\ \E page \in Pages, args \in ArgLists :
        LET built == build_path(page, args) IN
        /\ current_url' = IF built.err = "none" THEN built.url ELSE current_url
        /\ last_goto' = [page |-> page, args |-> args, err |-> built.err,
                         navigated |-> (built.err = "none"),
                         ret |-> IF built.err = "none" THEN goto_return ELSE "none",
                         url_before |-> current_url, url_after |-> current_url']
        /\ BodyCall(built.err)
    /\ body_ops' = body_ops + 1
    /\ waiting' = Idle
    /\ UNCHANGED <<cls, driver, user_data, logged_in, login_seen, project_url,
                   project_exists, site_root, acquires, releases>>
    /\ UNCHANGED <<last_user_url, addonVars, logVars, concVars>>

-----------------------------------------------------------------------------
(* SmokeTest.get_element: WebDriverWait(driver, timeout).until(...) *)

\* what the page holds for the selector when it is looked up
ElementStates == {"absent", "hidden", "visible"}

\* end_time of the wait, in poll intervals since it began
Deadline == timeout * PollsPerSecond

\* a wait condition that is met as soon as the element is in the DOM
presence_of_element_located(e) == e # "absent"

\* the wait condition: the element is located and is displayed
visibility_of_element_located(e) == e = "visible"

\* get_element is called: the wait begins
get_element ==
    /\ InTestBody
    /\ cls \in SmokeTests
    /\ waiting' = [state |-> "polling", elapsed |-> 0, element |-> "absent"]
    /\ body_ops' = body_ops + 1
    /\ UNCHANGED <<cls, phase, step, outcome, driver, current_url, user_data,
                   logged_in, login_seen, project_url, project_exists, site_root,
                   acquires, releases, calls, last_goto>>
    /\ UNCHANGED <<last_user_url, addonVars, logVars, concVars>>

\* one round of until: evaluate the condition on the page as it is now (the
\* page changes on its own between rounds); return the element when the
\* condition holds, else sleep one poll interval and raise TimeoutException
\* when the time is past end_time
until ==
    /\ phase = "test"
    /\ waiting.state = "polling"
    /\ \E e \in ElementStates, d \in 0..MaxLatency :
        LET now == waiting.elapsed + d IN
        IF visibility_of_element_located(e)
        THEN /\ waiting' = [state |-> "returned", elapsed |-> now, element |-> e]
             /\ BodyCall("none")
        ELSE IF now + 1 > Deadline
        THEN /\ waiting' = [state |-> "timeout", elapsed |-> now + 1, element |-> e]
             /\ BodyCall("TimeoutException")
        ELSE /\ waiting' = [state |-> "polling", elapsed |-> now + 1, element |-> e]
             /\ BodyCall("none")
    /\ UNCHANGED <<cls, driver, current_url, user_data, logged_in, login_seen,
                   project_url, project_exists, site_root, acquires, releases,
                   body_ops, last_goto>>
    /\ UNCHANGED <<last_user_url, addonVars, logVars, concVars>>

-----------------------------------------------------------------------------
(* UserSmokeTest.get_user_url *)

\* the page util.goto_profile takes the session to
ProfileUrl == <<"u">>

\* util.goto_project needs a project to go to
util_goto_project_results == IF project_exists THEN Results ELSE {"raise"}

\* a get_user_url that reads the user URL and stays on the profile page
get_user_url_stay(rp, rf, rg) ==
    IF rp = "raise" THEN [returned |-> FALSE, url |-> current_url]
    ELSE IF rf = "raise" THEN [returned |-> FALSE, url |-> ProfileUrl]
    ELSE [returned |-> TRUE, url |-> ProfileUrl]

\* get_user_url: util.goto_profile, read the href of the first link, then
\* util.goto_project; an exception of any of the three leaves the method
\* where the session then is
get_user_url_run(rp, rf, rg) ==
    IF rp = "raise" THEN [returned |-> FALSE, url |-> current_url]
    ELSE IF rf = "raise" THEN [returned |-> FALSE, url |-> ProfileUrl]
    ELSE IF rg = "raise" THEN [returned |-> FALSE, url |-> ProfileUrl]
    ELSE [returned |-> TRUE, url |-> util_goto_project(rg)]

get_user_url ==
    /\ InTestBody
    /\ cls \in {"UserSmokeTest", "ProjectSmokeTest"}
    /\ \E rp \in Results, rf \in Results, rg \in util_goto_project_results :
        LET run == get_user_url_run(rp, rf, rg) IN
        /\ current_url' = run.url
        /\ last_user_url' = [called |-> TRUE, returned |-> run.returned,
                             url_before |-> current_url, url_after |-> run.url]
        /\ BodyCall(IF run.returned THEN "none" ELSE "WebDriverException")
    /\ body_ops' = body_ops + 1
    /\ waiting' = Idle
    /\ UNCHANGED <<cls, driver, user_data, logged_in, login_seen, project_url,
                   project_exists, site_root, acquires, releases, last_goto>>
    /\ UNCHANGED <<addonVars, logVars, concVars>>

-----------------------------------------------------------------------------
(* ProjectSmokeTest.get_log: datetime.strptime(text, "%m/%d/%y %I:%M %p") *)

Digits == <<"0", "1", "2", "3", "4", "5", "6", "7", "8", "9">>

IsDigit(ch) == \E i \in DOMAIN Digits : Digits[i] = ch

DigitVal(ch) == (CHOOSE i \in DOMAIN Digits : Digits[i] = ch) - 1

\* the format string, directive by directive
Format == <<"%m", "/", "%d", "/", "%y", " ", "%I", ":", "%M", " ", "%p">>

HasDigits(text, pos, n) ==
    /\ pos + n - 1 <= Len(text)
    /\ \A k \in 0..(n - 1) : IsDigit(text[pos + k])

\* two digits at pos that make a number in lo..hi
Two(text, pos, lo, hi) ==
    IF HasDigits(text, pos, 2)
    THEN LET n == 10 * DigitVal(text[pos]) + DigitVal(text[pos + 1])
         IN  IF n \in lo..hi THEN <<[len |-> 2, val |-> n]>> ELSE <<>>
    ELSE <<>>

\* one digit at pos in lo..hi
One(text, pos, lo, hi) ==
    IF HasDigits(text, pos, 1) /\ DigitVal(text[pos]) \in lo..hi
    THEN <<[len |-> 1, val |-> DigitVal(text[pos])]>>
    ELSE <<>>

\* ' [1-9]', the last alternative of %d
SpaceDigit(text, pos) ==
    IF pos + 1 <= Len(text) /\ text[pos] = " " /\ HasDigits(text, pos + 1, 1)
       /\ DigitVal(text[pos + 1]) \in 1..9
    THEN <<[len |-> 2, val |-> DigitVal(text[pos + 1])]>>
    ELSE <<>>

\* %p: am or pm in either case; 0 for AM, 1 for PM
AmPm(text, pos) ==
    IF pos + 1 <= Len(text) /\ text[pos + 1] \in {"M", "m"}
    THEN IF text[pos] \in {"A", "a"} THEN <<[len |-> 2, val |-> 0]>>
         ELSE IF text[pos] \in {"P", "p"} THEN <<[len |-> 2, val |-> 1]>>
         ELSE <<>>
    ELSE <<>>

\* number of blanks from pos on
RECURSIVE Blanks(_, _)
Blanks(text, pos) ==
    IF pos <= Len(text) /\ text[pos] = " " THEN 1 + Blanks(text, pos + 1) ELSE 0

\* a blank of the format stands for \s+: the longest run first
Whitespace(text, pos) ==
    LET n == Blanks(text, pos) IN [k \in 1..n |-> [len |-> n + 1 - k, val |-> 0]]

Literal(text, pos, ch) ==
    IF pos <= Len(text) /\ text[pos] = ch THEN <<[len |-> 1, val |-> 0]>> ELSE <<>>

\* what one directive can match at pos, in the order the pattern tries it
Candidates(d, text, pos) ==
    CASE d = "%m" -> Two(text, pos, 1, 12) \o One(text, pos, 1, 9)
      [] d = "%d" -> Two(text, pos, 1, 31) \o One(text, pos, 1, 9) \o SpaceDigit(text, pos)
      [] d = "%y" -> Two(text, pos, 0, 99)
      [] d = "%I" -> Two(text, pos, 1, 12) \o One(text, pos, 1, 9)
      [] d = "%M" -> Two(text, pos, 0, 59) \o One(text, pos, 0, 9)
      [] d = "%p" -> AmPm(text, pos)
      [] d = " " -> Whitespace(text, pos)
      [] OTHER -> Literal(text, pos, d)

NoMatch == [ok |-> FALSE, end |-> 0, vals |-> <<>>]

\* the pattern of the format matched against text from directive i at pos:
\* the first match in the order of the alternatives, backtracking on failure
RECURSIVE Match(_, _, _), TryEach(_, _, _, _, _)
Match(text, i, pos) ==
    IF i > Len(Format) THEN [ok |-> TRUE, end |-> pos, vals |-> <<>>]
    ELSE TryEach(text, i, pos, Candidates(Format[i], text, pos), 1)

TryEach(text, i, pos, cands, k) ==
    IF k > Len(cands) THEN NoMatch
    ELSE LET rest == Match(text, i + 1, pos + cands[k].len)
         IN  IF rest.ok
             THEN [ok |-> TRUE, end |-> rest.end, vals |-> <<cands[k].val>> \o rest.vals]
             ELSE TryEach(text, i, pos, cands, k + 1)

IsLeap(year) == year % 4 = 0 /\ (year % 100 # 0 \/ year % 400 = 0)

DaysIn(year, month) ==
    IF month = 2 THEN (IF IsLeap(year) THEN 29 ELSE 28)
    ELSE IF month \in {4, 6, 9, 11} THEN 30 ELSE 31

\* %y: 69..99 are 1969..1999, 00..68 are 2000..2068
FullYear(yy) == IF yy <= 68 THEN 2000 + yy ELSE 1900 + yy

\* an hour conversion that adds 12 for PM and leaves AM alone
Hour24_naive(hour12, pm) == IF pm = 1 THEN hour12 + 12 ELSE hour12

\* %I with %p: 12 AM is hour 0, 12 PM is hour 12, other PM hours add 12
Hour24(hour12, pm) ==
    IF pm = 1 THEN (IF hour12 = 12 THEN 12 ELSE hour12 + 12)
    ELSE (IF hour12 = 12 THEN 0 ELSE hour12)

ValueError == [err |-> "ValueError"]

\* datetime.strptime: ValueError when the text does not match the format,
\* when text is left over after the match, or when the day is not a day of
\* the month; else the datetime
strptime(text) ==
    LET m == Match(text, 1, 1) IN
    IF ~m.ok \/ m.end # Len(text) + 1 THEN ValueError
    ELSE LET year == FullYear(m.vals[5])
             month == m.vals[1]
             day == m.vals[3]
         IN  IF day > DaysIn(year, month) THEN ValueError
             ELSE [err |-> "none",
                   time |-> [year |-> year, month |-> month, day |-> day,
                             hour |-> Hour24(m.vals[7], m.vals[11]),
                             minute |-> m.vals[9], second |-> 0]]

\* for x in css_url: self.log_url.append(x.get_attribute('href'))
RECURSIVE hrefs(_)
hrefs(anchors) ==
    IF Len(anchors) = 0 THEN <<>> ELSE <<anchors[1].href>> \o hrefs(Tail(anchors))

NoTime == [null |-> TRUE]

\* a LogEntry that keeps log_time None when the timestamp does not parse
LogEntry_lenient(fragment) ==
    LET parsed == strptime(fragment.time) IN
    [state |-> "entry", log_text |-> fragment.text, log_url |-> hrefs(fragment.links),
     log_time |-> IF parsed.err = "none" THEN parsed.time ELSE NoTime]

\* LogEntry.__init__: text, links and time of the fragment; the ValueError
\* of strptime leaves the constructor, and get_log with it
LogEntry(fragment) ==
    LET parsed == strptime(fragment.time) IN
    IF parsed.err = "none"
    THEN [state |-> "entry", log_text |-> fragment.text,
          log_url |-> hrefs(fragment.links), log_time |-> parsed.time]
    ELSE [state |-> "ValueError"]

\* get_log: find_element raises when the page shows no log; else
\* return LogEntry(log_entry_element)
get_log ==
    /\ InTestBody
    /\ cls = "ProjectSmokeTest"
    /\ log_entry' = IF page_log = NoLog
                    THEN [state |-> "NoSuchElementException"]
                    ELSE LogEntry(page_log)
    /\ BodyCall(IF log_entry'.state = "entry" THEN "none" ELSE log_entry'.state)
    /\ body_ops' = body_ops + 1
    /\ waiting' = Idle
    /\ UNCHANGED <<cls, driver, current_url, user_data, logged_in, login_seen,
                   project_url, project_exists, site_root, acquires, releases,
                   last_goto, last_user_url, page_log, addonVars, concVars>>

-----------------------------------------------------------------------------
(* GithubaddonFixture *)

\* pages the settings steps take the session to
AddonPages == {<<"s">>, <<"g">>}

\* ProjectFixture.setUpClass: session, logged-in user and project, the
\* session on the project's page; or it raises
ProjectFixture_setUpClass ==
    /\ AtSetUp("ProjectFixture_setUpClass")
    /\ \E r \in Results, url \in ProjectUrls :
        /\ IF r = "ok"
           THEN /\ driver' = "live"
                /\ acquires' = acquires + 1
                /\ user_data' = "user"
                /\ logged_in' = TRUE
                /\ login_seen' = "seen"
                /\ project_url' = url
                /\ project_exists' = TRUE
                /\ current_url' = url
                /\ parent_url' = url
           ELSE UNCHANGED <<driver, acquires, user_data, logged_in, login_seen,
                            project_url, project_exists, current_url, parent_url>>
        /\ Called("ProjectFixture_setUpClass", r)
        /\ AfterSetUpCall(r)
    /\ UNCHANGED <<cls, site_root, releases, body_ops, last_goto, waiting,
                   last_user_url, saved_url, addon, logVars, concVars>>

\* _url = cls.page.driver.current_url
save_url ==
    /\ AtSetUp("save_url")
    /\ saved_url' = current_url
    /\ Called("save_url", "ok")
    /\ AfterSetUpCall("ok")
    /\ UNCHANGED <<cls, driver, current_url, user_data, logged_in, login_seen,
                   project_url, project_exists, site_root, acquires, releases,
                   body_ops, last_goto, waiting, last_user_url, parent_url, addon,
                   logVars, concVars>>

\* a settings step of the page object: it changes the addon settings and
\* leaves the session on one of the settings pages, or raises
settings_step(name, done) ==
    /\ AtSetUp(name)
    /\ \E r \in Results, at \in AddonPages :
        /\ addon' = IF r = "ok" THEN done ELSE addon
        /\ current_url' = at
        /\ Called(name, r)
        /\ AfterSetUpCall(r)
    /\ UNCHANGED <<cls, driver, user_data, logged_in, login_seen, project_url,
                   project_exists, site_root, acquires, releases, body_ops,
                   last_goto, waiting, last_user_url, saved_url, parent_url,
                   logVars, concVars>>

\* cls.page.settings.addon_selection("GitHub")
addon_selection == settings_step("addon_selection", "selected")

\* cls.page.settings.get_token("github")
get_token == settings_step("get_token", "token")

\* cls.page.settings.set_repo("github", ['osftest', 'addontesting'])
set_repo == settings_step("set_repo", "repo")

\* cls.page.driver.get(_url)
restore_url ==
    /\ AtSetUp("restore_url")
    /\ current_url' = saved_url
    /\ Called("restore_url", "ok")
    /\ AfterSetUpCall("ok")
    /\ UNCHANGED <<cls, driver, user_data, logged_in, login_seen, project_url,
                   project_exists, site_root, acquires, releases, body_ops,
                   last_goto, waiting, last_user_url, addonVars, logVars, concVars>>

\* ProjectFixture.tearDownClass, which GithubaddonFixture inherits: the
\* project is deleted, the user logged out and the session ended; it does
\* nothing about the addon settings
ProjectFixture_tearDownClass ==
    /\ AtTearDown("ProjectFixture_tearDownClass")
    /\ project_exists' = FALSE
    /\ logged_in' = FALSE
    /\ driver' = "quit"
    /\ releases' = releases + 1
    /\ Called("ProjectFixture_tearDownClass", "ok")
    /\ AfterTearDownCall("ok")
    /\ UNCHANGED <<cls, current_url, user_data, login_seen, project_url, site_root,
                   acquires, body_ops, last_goto, waiting, last_user_url, addonVars,
                   logVars, concVars>>

-----------------------------------------------------------------------------
Next ==
    \/ launch_driver
    \/ create_user
    \/ login
    \/ create_project
    \/ goto_project
    \/ goto
    \/ get_element
    \/ until
    \/ get_user_url
    \/ get_log
    \/ TestReturns
    \/ delete_project
    \/ logout
    \/ quit
    \/ ProjectFixture_setUpClass
    \/ save_url
    \/ addon_selection
    \/ get_token
    \/ set_repo
    \/ restore_url
    \/ ProjectFixture_tearDownClass

Spec == Init /\ [][Next]_vars

\* the test runs in one thread: inside get_element nothing but the wait's own
\* loop runs, and it is not suspended for ever
FairSpec == Spec /\ WF_vars(until)

-----------------------------------------------------------------------------
(* The activity log the project page shows, and get_log applied to it *)

Years == {1999, 2000, 2024, 2068}
Months == {2, 3, 12}
Days == {1, 14, 29, 31}
Hours == {0, 2, 11, 12, 14, 23}
Minutes == {0, 5, 59}

\* the instants an entry can be stamped with
Instants ==
    {t \in [year : Years, month : Months, day : Days, hour : Hours,
            minute : Minutes, second : {0}] : t.day <= DaysIn(t.year, t.month)}

TwoDigits(n) == <<Digits[(n \div 10) + 1], Digits[(n % 10) + 1]>>

Plain(n) == IF n < 10 THEN <<Digits[n + 1]>> ELSE TwoDigits(n)

\* zero-padded, not padded, or zero-padded with am/pm in lower case
Styles == {"padded", "unpadded", "lowercase"}

\* the text the page shows for the instant t: month/day/2-digit-year
\* hour:minute AM|PM on the 12-hour clock
Render(t, style) ==
    LET num(n) == IF style = "unpadded" THEN Plain(n) ELSE TwoDigits(n)
        hour12 == IF t.hour % 12 = 0 THEN 12 ELSE t.hour % 12
        half == IF t.hour < 12
                THEN (IF style = "lowercase" THEN <<"a", "m">> ELSE <<"A", "M">>)
                ELSE (IF style = "lowercase" THEN <<"p", "m">> ELSE <<"P", "M">>)
    IN  num(t.month) \o <<"/">> \o num(t.day) \o <<"/">> \o TwoDigits(t.year % 100)
        \o <<" ">> \o num(hour12) \o <<":">> \o TwoDigits(t.minute) \o <<" ">> \o half

\* timestamp texts that are not in the format, or name no day of the calendar
Malformed ==
    {<<"2", "0", "2", "4", "-", "0", "3", "-", "1", "4">>,
     <<>>,
     <<"0", "3", "/", "1", "4", "/", "2", "0", "2", "4", " ", "0", "2", ":", "1", "5", " ", "P", "M">>,
     <<"0", "3", "/", "1", "4", "/", "2", "4", " ", "1", "4", ":", "1", "5">>,
     <<"1", "3", "/", "1", "4", "/", "2", "4", " ", "0", "2", ":", "1", "5", " ", "P", "M">>,
     <<"0", "3", "/", "1", "4", "/", "2", "4", " ", "0", "2", ":", "1", "5", " ", "P", "M", " ", "x">>,
     <<"0", "3", "/", "1", "4", "/", "2", "4", " ", "0", "2", ":", "1", "5", "P", "M">>,
     <<"0", "3", "/", "1", "4", "/", "2", "4", " ", "0", "0", ":", "1", "5", " ", "A", "M">>,
     <<"0", "3", "/", "1", "4", "/", "2", "4", " ", "0", "2", ":", "6", "0", " ", "P", "M">>,
     <<"0", "2", "/", "3", "0", "/", "2", "4", " ", "0", "2", ":", "1", "5", " ", "P", "M">>,
     <<"0", "3", "/", "1", "4", "/", "2", "4", " ", "0", "2", ":", "1", "5">>,
     <<"0", "3", "-", "1", "4", "-", "2", "4", " ", "0", "2", ":", "1", "5", " ", "P", "M">>}

\* the anchors of an entry, in document order
LinkLists ==
    {<<>>, <<[href |-> "/user/"]>>,
     <<[href |-> "/user/"], [href |-> "/project/"]>>,
     <<[href |-> "/project/"], [href |-> "/user/"]>>}

LogText == "Created project"

\* the fragments of the page: `shown` is the instant the timestamp text was
\* rendered from, NoTime when the text is malformed
Fragments ==
    {[text |-> LogText, links |-> l, time |-> Render(t, st), shown |-> t] :
        l \in LinkLists, t \in Instants, st \in Styles}
    \cup {[text |-> LogText, links |-> l, time |-> m, shown |-> NoTime] :
        l \in LinkLists, m \in Malformed}
    \cup {NoLog}

\* a ProjectSmokeTest whose setUp has returned, on a project page that shows
\* one of the fragments
InitLog ==
    /\ cls = "ProjectSmokeTest"
    /\ site_root \in SiteRoots
    /\ phase = "test"
    /\ step = 1
    /\ outcome = "none"
    /\ driver = "live"
    /\ current_url = <<"p", Slash>>
    /\ user_data = "user"
    /\ logged_in = TRUE
    /\ login_seen = "seen"
    /\ project_url = <<"p", Slash>>
    /\ project_exists = TRUE
    /\ calls = [i \in DOMAIN SetUpChain("ProjectSmokeTest") |->
                  [name |-> SetUpChain("ProjectSmokeTest")[i], ok |-> TRUE]]
    /\ body_ops = 0
    /\ last_goto = NoGoto
    /\ waiting = Idle
    /\ acquires = 1
    /\ releases = 0
    /\ last_user_url = NoUserUrl
    /\ saved_url = <<>>
    /\ parent_url = <<>>
    /\ addon = "none"
    /\ page_log \in Fragments
    /\ log_entry = NoEntry
    /\ worker = NoWorkers
    /\ session = NoSessions

NextLog == get_log

LogSpec == InitLog /\ [][NextLog]_vars

-----------------------------------------------------------------------------
(* Test executions in separate worker processes (_multiprocess_can_split_):
   each worker runs setUp, the test method and tearDown of its own
   ProjectSmokeTest instance; `session` is the pool of everything the
   executions have created (sessions, credentials, project handles), each with
   the worker that created it, the workers that used it and the worker that
   released it (0 while it is held or not made) *)

\* worker processes running at the same time
NumWorkers == 2

Workers == 1..NumWorkers

Kinds == {"session", "credential", "project"}

\* a handle is local to the process that made it: the worker and the kind
Handles == Workers \X Kinds

NoHandle == <<0, "none">>

\* a fresh instance: no attribute is set
FreshInstance == [phase |-> "setUp", step |-> 1, driver |-> NoHandle,
                  user_data |-> NoHandle, project_url |-> NoHandle]

Absent == [kind |-> "none", owner |-> 0, users |-> {}, released_by |-> 0]

\* a setUp that attaches to a session that is already open, if there is one
OwnSession_attach(pool, w) ==
    IF \E h \in DOMAIN pool : pool[h].kind = "session"
    THEN CHOOSE h \in DOMAIN pool : pool[h].kind = "session"
    ELSE <<w, "session">>

\* self.driver = util.launch_driver(...): every setUp opens a session of its
\* own in its own process
OwnSession(pool, w) == <<w, "session">>

\* the pool after worker w made the handle h, unless h is there already
Created(pool, h, w) ==
    IF pool[h].kind # "none" THEN pool
    ELSE [pool EXCEPT ![h] = [kind |-> h[2], owner |-> w, users |-> {},
                              released_by |-> 0]]

\* the pool after worker w used the handles hs
UsedBy(pool, hs, w) ==
    [h \in DOMAIN pool |->
        IF h \in hs THEN [pool[h] EXCEPT !.users = @ \cup {w}] ELSE pool[h]]

\* the pool after worker w released the handle h
ReleasedBy(pool, h, w) ==
    [i \in DOMAIN pool |->
        IF i = h THEN [pool[i] EXCEPT !.released_by = w] ELSE pool[i]]

\* the instance of worker w after a call of its setUp returned or raised
InstanceAfterSetUp(me, r) ==
    IF r = "raise" THEN [me EXCEPT !.phase = "done"]
    ELSE IF me.step = Len(SetUpChain("ProjectSmokeTest"))
    THEN [me EXCEPT !.phase = "test", !.step = 1]
    ELSE [me EXCEPT !.step = @ + 1]

\* the instance of worker w after a call of its tearDown returned or raised
InstanceAfterTearDown(me, r) ==
    IF r = "raise" \/ me.step = Len(TearDownChain("ProjectSmokeTest"))
    THEN [me EXCEPT !.phase = "done"]
    ELSE [me EXCEPT !.step = @ + 1]

otherVars == <<cls, phase, step, outcome, driver, current_url, user_data,
               logged_in, login_seen, project_url, project_exists, site_root,
               acquires, releases, calls, body_ops, last_goto, waiting,
               last_user_url, addonVars, logVars>>

\* worker w runs the next call of setUp on its instance: the call works on
\* the instance's own attributes (self.driver, self.user_data,
\* self.project_url)
WorkerSetUp(w) ==
    /\ worker[w].phase = "setUp"
    /\ \E r \in Results :
        LET me == worker[w]
            name == SetUpChain("ProjectSmokeTest")[me.step]
            after == InstanceAfterSetUp(me, r)
        IN  CASE name = "launch_driver" ->
                   IF r = "ok"
                   THEN LET h == OwnSession(session, w) IN
                        /\ session' = Created(session, h, w)
                        /\ worker' = [worker EXCEPT ![w] = [after EXCEPT !.driver = h]]
                   ELSE /\ session' = session
                        /\ worker' = [worker EXCEPT ![w] = after]
              [] name = "create_user" ->
                   IF r = "ok"
                   THEN /\ session' = Created(UsedBy(session, {me.driver}, w),
                                               <<w, "credential">>, w)
                        /\ worker' = [worker EXCEPT ![w] =
                                         [after EXCEPT !.user_data = <<w, "credential">>]]
                   ELSE /\ session' = UsedBy(session, {me.driver}, w)
                        /\ worker' = [worker EXCEPT ![w] = after]
              [] name = "login" ->
                   /\ session' = UsedBy(session, {me.driver, me.user_data}, w)
                   /\ worker' = [worker EXCEPT ![w] = after]
              [] name = "create_project" ->
                   IF r = "ok"
                   THEN /\ session' = Created(UsedBy(session, {me.driver}, w),
                                               <<w, "project">>, w)
                        /\ worker' = [worker EXCEPT ![w] =
                                         [after EXCEPT !.project_url = <<w, "project">>]]
                   ELSE /\ session' = UsedBy(session, {me.driver}, w)
                        /\ worker' = [worker EXCEPT ![w] = after]
              [] OTHER ->
                   /\ session' = UsedBy(session, {me.driver, me.project_url}, w)
                   /\ worker' = [worker EXCEPT ![w] = after]
    /\ UNCHANGED otherVars

\* the test method of worker w drives the instance's session on the
\* instance's project, then returns or raises
WorkerTest(w) ==
    /\ worker[w].phase = "test"
    /\ session' = UsedBy(session, {worker[w].driver, worker[w].project_url}, w)
    /\ worker' = [worker EXCEPT ![w] = [@ EXCEPT !.phase = "tearDown", !.step = 1]]
    /\ UNCHANGED otherVars

\* worker w runs the next call of tearDown on its instance
WorkerTearDown(w) ==
    /\ worker[w].phase = "tearDown"
    /\ \E r \in Results :
        LET me == worker[w]
            name == TearDownChain("ProjectSmokeTest")[me.step]
            used == UsedBy(session, {me.driver}, w)
        IN  /\ worker' = [worker EXCEPT ![w] = InstanceAfterTearDown(me, r)]
            /\ session' =
                 IF r = "raise" THEN used
                 ELSE CASE name = "delete_project" -> ReleasedBy(used, me.project_url, w)
                        [] name = "logout" -> ReleasedBy(used, me.user_data, w)
                        [] OTHER -> ReleasedBy(used, me.driver, w)
    /\ UNCHANGED otherVars

InitWorkers ==
    /\ cls = "ProjectSmokeTest"
    /\ site_root = NoAttr
    /\ phase = "setUp"
    /\ step = 1
    /\ outcome = "none"
    /\ driver = "none"
    /\ current_url = <<>>
    /\ user_data = "none"
    /\ logged_in = FALSE
    /\ login_seen = "none"
    /\ project_url = <<>>
    /\ project_exists = FALSE
    /\ calls = <<>>
    /\ body_ops = 0
    /\ last_goto = NoGoto
    /\ waiting = Idle
    /\ acquires = 0
    /\ releases = 0
    /\ last_user_url = NoUserUrl
    /\ saved_url = <<>>
    /\ parent_url = <<>>
    /\ addon = "none"
    /\ page_log = NoLog
    /\ log_entry = NoEntry
    /\ worker = [w \in Workers |-> FreshInstance]
    /\ session = [h \in Handles |-> Absent]

NextWorkers ==
    \E w \in Workers : WorkerSetUp(w) \/ WorkerTest(w) \/ WorkerTearDown(w)

WorkersSpec == InitWorkers /\ [][NextWorkers]_vars

-----------------------------------------------------------------------------
(* Properties *)

\* the call `name` was made in this execution
Invoked(name) == \E i \in DOMAIN calls : calls[i].name = name

\* the call `name` was made and returned
Completed(name) == \E i \in DOMAIN calls : calls[i].name = name /\ calls[i].ok

\* every call of `b` comes after a call of `a` that returned
Before(a, b) ==
    \A i \in DOMAIN calls :
        calls[i].name = b => \E j \in 1..(i - 1) : calls[j].name = a /\ calls[j].ok

\* `name` was called at most once
AtMostOnce(name) == Cardinality({i \in DOMAIN calls : calls[i].name = name}) <= 1

\* C1: when a test execution has ended, the sessions acquired
\* (util.launch_driver) are as many as the sessions released (driver.quit):
\* no session is leaked, whichever way the execution ended.
NoLeakedSession == phase = "done" => acquires = releases

\* C2: when a call of setUp fails, the test body is not run and the session
\* that SmokeTest.setUp acquired is released by driver.quit.
SetUpFailureReleasesSession ==
    (phase = "done" /\ outcome = "setUpError") =>
        /\ ~Invoked("test")
        /\ body_ops = 0
        /\ (Completed("launch_driver") => Completed("quit"))

SessionStage == Completed("launch_driver")

UserStage == Completed("create_user") /\ Completed("login")

ProjectStage == Completed("create_project") /\ Completed("goto_project")

IsTearDownCall(c) == c.name \in {"delete_project", "logout", "quit"} /\ c.ok

\* the teardown calls that were made and returned, in order
TearDownDone ==
    LET done == SelectSeq(calls, IsTearDownCall)
    IN  [i \in 1..Len(done) |-> done[i].name]

\* C3: when the execution has ended, the teardown calls that ran are exactly
\* those of the setup stages that completed, in reverse order of setup:
\* delete_project, then logout, then quit, none of them skipped.
TearDownMirrorsSetUp ==
    phase = "done" =>
        TearDownDone = (IF ProjectStage THEN <<"delete_project">> ELSE <<>>)
                       \o (IF UserStage THEN <<"logout">> ELSE <<>>)
                       \o (IF SessionStage THEN <<"quit">> ELSE <<>>)

\* C4: on every exit path through tearDown the acquired session is released:
\* driver.quit is reached also when delete_project or logout raised before it.
QuitReachedWhenTearDownRaises ==
    (phase = "done" /\ Invoked("test") /\ SessionStage) => driver = "quit"

\* C5: in a ProjectSmokeTest execution the setup calls run one after the
\* other in dependency order, each once and each after the one before it
\* returned: launch_driver, create_user, login, create_project, goto_project;
\* the test body starts only after all of them returned.
SetUpInDependencyOrder ==
    cls = "ProjectSmokeTest" =>
        /\ Before("launch_driver", "create_user")
        /\ Before("create_user", "login")
        /\ Before("login", "create_project")
        /\ Before("create_project", "goto_project")
        /\ \A n \in {"launch_driver", "create_user", "login", "create_project",
                     "goto_project"} : AtMostOnce(n)
        /\ (phase = "test" \/ Invoked("test") \/ body_ops > 0) =>
              /\ SessionStage /\ UserStage /\ ProjectStage
              /\ Before("goto_project", "test")
        /\ phase = "test" =>
              driver = "live" /\ user_data = "user" /\ logged_in /\ project_exists

SetUpInDependencyOrderWitness ==
    /\ cls = "ProjectSmokeTest"
    /\ phase = "test"
    /\ body_ops > 0
    /\ Len(calls) = 5

\* C6: when the post-login indicator is not observed after util.login, setUp
\* fails: the execution ends with a setup error and the test body never runs.
NoUserLayerWithoutLogin ==
    login_seen = "missing" =>
        /\ phase = "done"
        /\ outcome = "setUpError"
        /\ ~Invoked("test")
        /\ body_ops = 0

NoUserLayerWithoutLoginWitness ==
    /\ login_seen = "missing"
    /\ Invoked("login")
    /\ phase = "done"

\* C7: goto with a page key that is not in the path table fails with KeyError
\* and navigates nowhere: driver.get is not called and the session's address
\* stays what it was.
UnknownKeyFailsWithoutNavigation ==
    last_goto.page \notin (PathKeys \cup {"none"}) =>
        /\ last_goto.err = "KeyError"
        /\ ~last_goto.navigated
        /\ last_goto.url_after = last_goto.url_before
        /\ outcome \in {"failed", "tearDownError"}

UnknownKeyFailsWithoutNavigationWitness ==
    /\ last_goto.page = "unknown-key"
    /\ last_goto.url_before = project_url
    /\ phase = "tearDown"

\* the project's base address with the segments appended: the base without
\* its trailing slash, if it has one, then '/' and each segment
Appended(base, segs) ==
    join(<<IF base[Len(base)] = Slash THEN AllButLast(base) ELSE base>> \o segs)

\* C8: goto('file', name) navigates to the project's base address with
\* '/files/<name>' appended, and goto('files') to the base address with
\* '/files' appended, segment-joined and with no character of the base
\* address lost, whether or not the base address ends with a slash.
GotoFileAppendsToBase ==
    /\ (last_goto.page = "file" /\ last_goto.err = "none") =>
          last_goto.url_after = Appended(project_url, <<files_segment, last_goto.args[1]>>)
    /\ (last_goto.page = "files" /\ last_goto.err = "none") =>
          last_goto.url_after = Appended(project_url, <<files_segment>>)

GetElementTerminates ==
    /\ [](waiting.state = "returned" => waiting.element = "visible")
    /\ [](waiting.state = "timeout" =>
            /\ waiting.element # "visible"
            /\ waiting.elapsed > Deadline
            /\ outcome \in {"failed", "tearDownError"})
    /\ [](waiting.elapsed <= Deadline + MaxLatency + 1)
    /\ (waiting.state = "polling") ~> (waiting.state \in {"returned", "timeout"})

GetElementTerminatesWitness ==
    /\ waiting.state = "timeout"
    /\ waiting.elapsed > timeout * PollsPerSecond
    /\ phase = "tearDown"

\* C14: the session is released with full-quit semantics: whenever tearDown
\* has released the session, the whole browser session has ended; no path
\* leaves a session whose window alone was closed.
ReleaseIsFullQuit ==
    /\ driver # "window_closed"
    /\ (Completed("quit") \/ releases > 0) => driver = "quit"

ReleaseIsFullQuitWitness ==
    /\ Completed("quit")
    /\ releases = 1
    /\ phase = "done"

\* C15: the fixture states are layered in every state of the execution:
\* the project exists only while a user is logged in, and a user is logged in
\* only while the session is live.
FixtureStatesLayered ==
    /\ project_exists => logged_in
    /\ logged_in => driver = "live"

\* in the middle of tearDown: the project is deleted, the user still logged in
FixtureStatesLayeredWitness ==
    /\ cls = "ProjectSmokeTest"
    /\ phase = "tearDown"
    /\ Completed("delete_project")
    /\ ~project_exists
    /\ logged_in
    /\ driver = "live"

\* C17: goto accepts the page names its docstring lists ('files', 'settings',
\* 'registrations'): for each of them it navigates and returns True.
DocumentedPagesAccepted ==
    last_goto.page \in {"files", "settings", "registrations"} =>
        /\ last_goto.err = "none"
        /\ last_goto.navigated
        /\ last_goto.ret = "True"

\* building the address fails: unknown key, 'file' with no argument,
\* 'user-dashboard' with no site root
BuildFails(g) ==
    \/ g.page \notin PathKeys
    \/ g.page = "file" /\ g.args = <<>>
    \/ g.page = "user-dashboard" /\ site_root = NoAttr

\* C18: goto issues one navigation or fails having issued none: when
\* building the address fails there is no navigation and the session stays
\* where it was, otherwise there is one; and a goto step changes neither the
\* project handle nor the user credential.
GotoNavigatesOnceOrNotAtAll ==
    /\ [](last_goto.page # "none" =>
            /\ BuildFails(last_goto) =>
                  /\ last_goto.err # "none"
                  /\ ~last_goto.navigated
                  /\ last_goto.url_after = last_goto.url_before
            /\ ~BuildFails(last_goto) =>
                  /\ last_goto.err = "none"
                  /\ last_goto.navigated)
    /\ [][goto => UNCHANGED <<project_url, project_exists, user_data, logged_in>>]_vars

GotoNavigatesOnceOrNotAtAllWitness ==
    /\ last_goto.page = "file"
    /\ last_goto.args = <<>>
    /\ last_goto.err = "IndexError"
    /\ phase = "tearDown"

\* C20: get_user_url leaves the session on the project page: after a call
\* that returned the session is at the project's address, not at the profile
\* page; and a get_user_url step changes neither the user credential nor the
\* project handle.
GetUserUrlEndsOnProject ==
    /\ [](last_user_url.returned =>
            /\ last_user_url.url_after = project_url
            /\ last_user_url.url_after # ProfileUrl)
    /\ [][get_user_url => UNCHANGED <<user_data, logged_in, project_url, project_exists>>]_vars

GetUserUrlEndsOnProjectWitness ==
    /\ last_user_url.returned
    /\ last_goto.navigated
    /\ last_user_url.url_before # project_url
    /\ current_url = project_url

\* C16: GithubaddonFixture runs the parent setup chain first and its addon
\* steps (addon selection, token, repository) only after it, and tears them
\* down symmetrically: by the time the parent teardown chain runs, the
\* fixture's teardown has undone the addon steps.
AddonLayerSymmetric ==
    cls = "GithubaddonFixture" =>
        /\ Before("ProjectFixture_setUpClass", "addon_selection")
        /\ Before("addon_selection", "get_token")
        /\ Before("get_token", "set_repo")
        /\ Invoked("ProjectFixture_tearDownClass") => addon = "none"

\* C19: GithubaddonFixture.setUpClass preserves the session's location: when
\* it has completed, the session is at the address it was at when the parent
\* setup chain returned, wherever the addon steps took it in between.
SetUpClassKeepsLocation ==
    (cls = "GithubaddonFixture" /\ phase = "test") =>
        /\ Completed("set_repo")
        /\ current_url = parent_url
        /\ current_url \notin AddonPages

SetUpClassKeepsLocationWitness ==
    /\ cls = "GithubaddonFixture"
    /\ phase = "test"
    /\ addon = "repo"
    /\ current_url = parent_url

\* C11: for every timestamp text in the format month/day/2-digit-year
\* hour:minute AM|PM, get_log returns a LogEntry whose log_time is the instant
\* the text stands for on the 24-hour clock (12 AM is hour 0, 12 PM is hour
\* 12), whose log_text is the text of the entry and whose log_url lists the
\* targets of the entry's links in document order (empty when it has none)
LogEntryMatchesFragment ==
    (log_entry.state # "none" /\ page_log # NoLog /\ page_log.shown # NoTime) =>
        /\ log_entry.state = "entry"
        /\ log_entry.log_time = page_log.shown
        /\ log_entry.log_text = page_log.text
        /\ Len(log_entry.log_url) = Len(page_log.links)
        /\ \A i \in DOMAIN page_log.links :
              log_entry.log_url[i] = page_log.links[i].href

\* get_log has returned the entry of a fragment stamped 12:05 AM that has
\* two links
LogEntryMatchesFragmentWitness ==
    /\ log_entry.state = "entry"
    /\ page_log.shown.hour = 0
    /\ page_log.shown.minute = 5
    /\ log_entry.log_time.hour = 0
    /\ log_entry.log_url = <<"/project/", "/user/">>

\* C12: when the timestamp text does not match the format, get_log fails with
\* the parse error and returns no LogEntry (the test method is left with the
\* error); a LogEntry that is returned never has a null log_time
MalformedTimestampRaises ==
    /\ (log_entry.state # "none" /\ page_log # NoLog /\ page_log.shown = NoTime) =>
          /\ log_entry.state = "ValueError"
          /\ phase # "test"
          /\ outcome = "failed"
    /\ log_entry.state = "entry" =>
          /\ log_entry.log_time # NoTime
          /\ log_entry.log_time.hour \in 0..23

\* get_log has raised ValueError on the timestamp text 2024-03-14
MalformedTimestampRaisesWitness ==
    /\ log_entry.state = "ValueError"
    /\ page_log.time = <<"2", "0", "2", "4", "-", "0", "3", "-", "1", "4">>
    /\ outcome = "failed"

\* C13: when several tests run at the same time in separate workers, each
\* execution owns its session, its credential and its project handle: in
\* every interleaving nothing one execution created is used or released by
\* another, and no two executions hold the same handle
ExclusiveOwnership ==
    /\ \A h \in DOMAIN session :
          /\ session[h].users \subseteq {session[h].owner}
          /\ session[h].released_by \in {0, session[h].owner}
    /\ \A w \in DOMAIN worker :
          /\ worker[w].driver # NoHandle =>
                /\ session[worker[w].driver].kind = "session"
                /\ session[worker[w].driver].owner = w
          /\ worker[w].user_data # NoHandle =>
                /\ session[worker[w].user_data].kind = "credential"
                /\ session[worker[w].user_data].owner = w
          /\ worker[w].project_url # NoHandle =>
                /\ session[worker[w].project_url].kind = "project"
                /\ session[worker[w].project_url].owner = w

\* two executions overlap: one is in its test method on its own session and
\* project while the other has already released its project
ExclusiveOwnershipWitness ==
    /\ worker # NoWorkers
    /\ worker[1].phase = "test"
    /\ worker[1].project_url # NoHandle
    /\ session[worker[1].driver].users = {1}
    /\ worker[2].phase = "tearDown"
    /\ worker[2].project_url # NoHandle
    /\ session[worker[2].project_url].released_by = 2
    /\ session[worker[2].driver].users = {2}

=============================================================================
